---- MODULE Spec2Model ----
(***************************************************************************)
(* The vacation ledger of holidaybalance.go: the loop of main() over the   *)
(* all-day events of a calendar, in ascending start date.                  *)
(*                                                                         *)
(* Numbers.  The program computes in float64; the model computes the same  *)
(* quantities exactly, as integers over fixed denominators:                *)
(*   fte                  percent            (program value * 100)         *)
(*   daysOff              whole working days                               *)
(*   effDaysOff, spent    hundredths of a day (program value * 100)        *)
(*   accrued              program value * 100 * 365                        *)
(* so that  accrued += fte * HolidaysPerCalendarDay * days  becomes        *)
(*          accrued' = accrued + fte * HolidaysPerYear * days.             *)
(* Dates are day numbers; day 1 is Thursday 2026-01-01, "no date" (a nil   *)
(* *calendar.EventDateTime, the zero time.Time) is 0.                      *)
(***************************************************************************)
EXTENDS Integers, Sequences, FiniteSets, TLC

\* ------------------------------------------------------------------ bounds
MaxDate == 5          \* the calendar holds the days 1..MaxDate
MaxFirst == 1         \* the first listed event starts on one of 1..MaxFirst
MaxEvents == 3        \* events processed by one run
MaxHolidays == 2      \* keys of the public holiday map the index is built from
MaxPieces == 3        \* pieces a description is made of
MaxDigits == 1        \* characters of a balance line after its prefix
MaxRuns == 2          \* runs of the program over one event
MaxListed == 3        \* items of one listing of the calendar
MaxTwinEvents == 2    \* events processed by two runs side by side

\* ------------------------------------------------------- program constants
HolidaysPerYear == 25     \* numerator of HolidaysPerCalendarDay = 25. / 365.
DaysPerYear == 365        \* denominator of HolidaysPerCalendarDay
FteScale == 100           \* fte = float64(v) / 100
WeekDays == 5             \* calDays >= 5*fte
DaysInEpochYear == 365    \* day 1 is 2026-01-01; eoy is day 366

Nil == 0
Dates == 1..MaxDate

\* what rePercent.FindStringSubmatch can return in m[1]: two digits or 100;
\* the model draws from these and from "no match"
NoMatch == -1
SummaryPercents == {NoMatch, 60}
DescriptionPercents == {NoMatch, 20}

\* time.Weekday: Sunday = 0 ... Saturday = 6; day 1 is a Thursday
Weekday(d) == (d + 3) % 7
Sunday == 0
Saturday == 6

\* mustDate(b).Sub(mustDate(a)) / (24 * time.Hour)
DaysBetween(a, b) == b - a

\* ---------------------------------------------------------------- events
\* A listed event: its span, what the regular expressions find in Summary
\* (reStartDay, reVacation, reHalfDay, rePercent) and what rePercent finds in
\* Description.  Fields the program never reads for an event of that kind
\* are held at a fixed value.
Events ==
    { e \in [Start : Dates, End : Dates,
             startDay : BOOLEAN, vacation : BOOLEAN, halfDay : BOOLEAN,
             sumPct : SummaryPercents, descPct : DescriptionPercents] :
        /\ e.Start <= e.End
        /\ e.halfDay => (e.vacation /\ ~e.startDay)
        /\ (e.sumPct # NoMatch \/ e.descPct # NoMatch) => (e.startDay /\ ~e.vacation) }

NoEvent ==
    [Start |-> Nil, End |-> Nil, startDay |-> FALSE, vacation |-> FALSE,
     halfDay |-> FALSE, sumPct |-> NoMatch, descPct |-> NoMatch]

\* ------------------------------------------------------- work-day index
\* holidays[dd] == "" for a day that is no key of the map, and for a key
\* whose label is empty.
HolidayLabel(h, d) == IF d \in DOMAIN h THEN h[d] ELSE ""

IsWorkday(h, d) ==
    HolidayLabel(h, d) = "" /\ Weekday(d) # Sunday /\ Weekday(d) # Saturday

\* mutant of BuildWorkdays: the loop stops before endDate (d.Before(end))
RECURSIVE BuildWorkdays_Exclusive(_, _, _, _, _)
BuildWorkdays_Exclusive(h, d, last, n, acc) ==
    IF d >= last THEN acc
    ELSE BuildWorkdays_Exclusive(h, d + 1, last,
                       IF IsWorkday(h, d) THEN n + 1 ELSE n,
                       [x \in (DOMAIN acc) \cup {d} |-> IF x = d THEN n ELSE acc[x]])

\* the loop  for d := first; d.Before(end + 1h); d = d.AddDate(0,0,1):
\* workdays[d] = n, then n++ on a work day.
RECURSIVE BuildWorkdays(_, _, _, _, _)
BuildWorkdays(h, d, last, n, acc) ==
    IF d > last THEN acc
    ELSE BuildWorkdays(h, d + 1, last,
                       IF IsWorkday(h, d) THEN n + 1 ELSE n,
                       [x \in (DOMAIN acc) \cup {d} |-> IF x = d THEN n ELSE acc[x]])

EmptyMap == [x \in {} |-> 0]

\* workdays[date]: a Go map read gives 0 for a missing key
WorkdaysAt(w, d) == IF d \in DOMAIN w THEN w[d] ELSE 0

\* publicholidays.json: date -> summary of the public holiday event; the
\* summary of an event may be empty
HolidayMaps ==
    UNION { [K -> {"", "New Year"}] :
            K \in { S \in SUBSET Dates : Cardinality(S) <= MaxHolidays } }

\* the public holidays of the ledger runs: none, or New Year on day 1
LedgerHolidayMaps == { h \in HolidayMaps : DOMAIN h \subseteq {1} /\ \A d \in DOMAIN h : h[d] # "" }

VARIABLES
    holidays,          \* map date -> label (publicholidays.json)
    first,             \* events[0].Start
    endDate,           \* endDate: the latest End of all events
    workdays,          \* map date -> work days since first
    i,                 \* events taken from the list so far
    ev,                \* the loop variable, as listed
    startDate, lastDate, lastVacationDate, fte, accrued, spent,
    out,               \* the lines updateEvent printed for ev: none or one
    projection,        \* what the year-end line after the loop printed
    hist,              \* history: the first start date seen, whether a later
                       \* start marker changed fte (read by no action)
    pc                 \* "loop", "done" (after the projection), "fatal"

\* one call of updateEvent on one event, followed through the runs of the program
VARIABLES
    description,       \* ev.Description as the calendar holds it
    balanceline,       \* the line updateEvent renders for the event
    patch,             \* what the calls logged: "updated", "error", "same"
    runs               \* calls of updateEvent on the event so far

notes == <<description, balanceline, patch, runs>>

\* listAllDayEvents on its own
VARIABLES
    listed,            \* the items srv.Events.List returned, in that order
    events             \* r: the all-day events, after sort.Sort

listing == <<listed, events>>

\* two runs of the program over the same events and holidays
VARIABLES
    noUpdate,          \* the flag -n of either run
    twin               \* the ledger of either run, with what updateEvent
                       \* printed and logged for the last event

twins == <<noUpdate, twin>>

\* the variables the ledger loop leaves alone
aux == <<notes, listing, twins>>

vars == <<holidays, first, endDate, workdays, i, ev, startDate, lastDate,
          lastVacationDate, fte, accrued, spent, out, projection,
          hist, pc, aux>>

\* no pair of runs is being followed
TwinsIdle ==
    /\ noUpdate = <<>>
    /\ twin = <<>>

\* no listing is being followed
ListingIdle ==
    /\ listed = <<>>
    /\ events = <<>>

\* no call of updateEvent is being followed
NotesIdle ==
    /\ description = <<>>
    /\ balanceline = <<>>
    /\ patch = <<>>
    /\ runs = 0

NoProjection == [eoy |-> Nil, accrued |-> 0, balance |-> 0]

Init ==
    /\ holidays \in LedgerHolidayMaps
    /\ first \in 1..MaxFirst
    /\ endDate \in first..MaxDate
    /\ workdays = BuildWorkdays(holidays, first, endDate, 0, EmptyMap)
    /\ i = 0
    /\ ev = NoEvent
    /\ startDate = Nil
    /\ lastDate = Nil
    /\ lastVacationDate = Nil
    /\ fte = 0
    /\ accrued = 0
    /\ spent = 0
    /\ out = <<>>
    /\ projection = NoProjection
    /\ hist = [firstStart |-> Nil, fteChanged |-> FALSE]
    /\ pc = "loop"
    /\ NotesIdle
    /\ ListingIdle
    /\ TwinsIdle

\* ------------------------------------------------------------ the ledger
\* mutant of AccruedAfter: nothing accrues
AccruedAfter_Never(acc, f, last, end) == acc

\* if lastDate != nil { accrued += fte * HolidaysPerCalendarDay * days(lastDate, ev.End) }
AccruedAfter(acc, f, last, end) ==
    IF last # Nil THEN acc + f * HolidaysPerYear * DaysBetween(last, end) ELSE acc

\* mutants of LastDateAfter: the assignment dropped; the nil test dropped
LastDateAfter_Stale(last, end) == last
LastDateAfter_Always(last, end) == end

\* if lastDate != nil { lastDate = ev.End }
LastDateAfter(last, end) == IF last # Nil THEN end ELSE last

\* mutant of FirstDayOfEmployment: accrual begins at the end of the marker
FirstDayOfEmployment_End(start, last, e) == IF start = Nil THEN e.End ELSE last

\* if startDate.IsZero() { lastDate = ev.Start }
FirstDayOfEmployment(start, last, e) == IF start = Nil THEN e.Start ELSE last

\* m := rePercent.FindStringSubmatch(ev.Summary); if m == nil { ... (ev.Description) }
PercentMatch(e) == IF e.sumPct # NoMatch THEN e.sumPct ELSE e.descPct

\* mutant of NewFte: a start marker without a percentage keeps the fte
NewFte_Keep(f, m) == IF m # NoMatch THEN m ELSE f

\* if m != nil { if v <= 100 { fte = v / 100 } } else { fte = 1.0 }
NewFte(f, m) ==
    IF m # NoMatch THEN (IF m <= 100 THEN m ELSE f) ELSE FteScale

\* if lastDate.Date > ev.End.Date: "already accounted for"
AlreadyAccounted(last, e) == last > e.End

\* mutant of PatchedStart: the overlap is not trimmed
PatchedStart_NoTrim(lastVac, e) == e.Start

\* if lastVacationDate != nil && lastVacationDate.Date > ev.Start.Date { ev.Start = lastVacationDate }
PatchedStart(lastVac, e) ==
    IF lastVac # Nil /\ lastVac > e.Start THEN lastVac ELSE e.Start

\* daysOff := workdays[ev.End.Date] - workdays[ev.Start.Date]
DaysOff(w, start, end) == WorkdaysAt(w, end) - WorkdaysAt(w, start)

\* mutant of EffDaysOff: the threshold compared with > instead of >=
EffDaysOff_Strict(calDays, daysOff, f, half) ==
    IF calDays * FteScale > WeekDays * f THEN f * daysOff
    ELSE IF calDays * 100 < 101 /\ half THEN 50
    ELSE 100 * daysOff

\* effDaysOff, in hundredths of a day:
\*   calDays >= 5*fte                      -> fte * daysOff
\*   calDays < 1.01 && half day in Summary -> .5
\*   otherwise                             -> daysOff
EffDaysOff(calDays, daysOff, f, half) ==
    IF calDays * FteScale >= WeekDays * f THEN f * daysOff
    ELSE IF calDays * 100 < 101 /\ half THEN 50
    ELSE 100 * daysOff

\* the numbers of the line updateEvent prints
Line(from, to, daysOff, effDaysOff, acc, sp) ==
    [from |-> from, to |-> to, daysOff |-> daysOff, effDaysOff |-> effDaysOff,
     accrued |-> acc, spent |-> sp]

\* the next event of the list: the list is sorted by Start, events[0] starts
\* on first, and no event ends after endDate
Takes(e) ==
    /\ pc = "loop"
    /\ i < MaxEvents
    /\ e.Start >= (IF i = 0 THEN first ELSE ev.Start)
    /\ i = 0 => e.Start = first
    /\ e.End <= endDate
    /\ i' = i + 1
    /\ ev' = e

\* reStartDay.MatchString(ev.Summary)
StartDay ==
    \E e \in Events :
        /\ Takes(e)
        /\ e.startDay
        /\ accrued' = AccruedAfter(accrued, fte, lastDate, e.End)
        /\ lastDate' = FirstDayOfEmployment(startDate, LastDateAfter(lastDate, e.End), e)
        /\ startDate' = e.Start
        /\ fte' = NewFte(fte, PercentMatch(e))
        /\ out' = <<Line(e.Start, e.End, 0, 0, accrued', spent)>>
        /\ hist' = [firstStart |-> IF hist.firstStart = Nil THEN e.Start
                                   ELSE hist.firstStart,
                    fteChanged |-> hist.fteChanged
                                   \/ (hist.firstStart # Nil /\ fte' # fte)]
        /\ UNCHANGED <<aux, holidays, first, endDate, workdays, lastVacationDate, spent,
                       projection, pc>>

\* reVacation.MatchString(ev.Summary) with no start date: log.Fatal
VacationFatal ==
    \E e \in Events :
        /\ Takes(e)
        /\ ~e.startDay /\ e.vacation
        /\ startDate = Nil
        /\ accrued' = AccruedAfter(accrued, fte, lastDate, e.End)
        /\ lastDate' = LastDateAfter(lastDate, e.End)
        /\ out' = <<>>
        /\ pc' = "fatal"
        /\ UNCHANGED <<aux, holidays, first, endDate, workdays, startDate, lastVacationDate,
                       fte, spent, projection, hist>>

\* reVacation.MatchString(ev.Summary) with a start date
Vacation ==
    \E e \in Events :
        /\ Takes(e)
        /\ ~e.startDay /\ e.vacation
        /\ startDate # Nil
        /\ accrued' = AccruedAfter(accrued, fte, lastDate, e.End)
        /\ lastDate' = LastDateAfter(lastDate, e.End)
        /\ IF AlreadyAccounted(lastDate', e)
           THEN /\ out' = <<>>
                /\ UNCHANGED <<lastVacationDate, spent>>
           ELSE LET start == PatchedStart(lastVacationDate, e)
                    daysOff == DaysOff(workdays, start, e.End)
                    effDaysOff == EffDaysOff(DaysBetween(start, e.End), daysOff, fte,
                                             e.halfDay)
                IN  /\ lastVacationDate' = e.End
                    /\ spent' = spent + effDaysOff
                    /\ out' = <<Line(start, e.End, daysOff, effDaysOff, accrued',
                                     spent')>>
        /\ UNCHANGED <<aux, holidays, first, endDate, workdays, startDate, fte, projection, hist,
                       pc>>

\* an event whose Summary matches neither expression
Ignored ==
    \E e \in Events :
        /\ Takes(e)
        /\ ~e.startDay /\ ~e.vacation
        /\ accrued' = AccruedAfter(accrued, fte, lastDate, e.End)
        /\ lastDate' = LastDateAfter(lastDate, e.End)
        /\ out' = <<>>
        /\ UNCHANGED <<aux, holidays, first, endDate, workdays, startDate, lastVacationDate,
                       fte, spent, projection, hist, pc>>

\* eoy := time.Date(y+1, 1, 1, ...): every day of the model lies in the year of day 1
Eoy(d) == DaysInEpochYear + 1

\* accruedEoy := accrued + fte*HolidaysPerCalendarDay*days(lastVacationDate, eoy)
AccruedEoy(acc, f, lastVac) == acc + f * HolidaysPerYear * DaysBetween(lastVac, Eoy(lastVac))

\* the list is exhausted (it holds at least one event): the year-end line
Projection ==
    /\ pc = "loop"
    /\ i >= 1
    /\ projection' =
          IF lastVacationDate # Nil
          THEN [eoy |-> Eoy(lastVacationDate),
                accrued |-> AccruedEoy(accrued, fte, lastVacationDate),
                balance |-> (AccruedEoy(accrued, fte, lastVacationDate) * 100
                             - spent * FteScale * DaysPerYear)]
          ELSE NoProjection
    /\ pc' = "done"
    /\ UNCHANGED <<aux, holidays, first, endDate, workdays, i, ev, startDate, lastDate,
                   lastVacationDate, fte, accrued, spent, out, hist>>

Next ==
    \/ StartDay
    \/ VacationFatal
    \/ Vacation
    \/ Ignored
    \/ Projection

Spec == Init /\ [][Next]_vars

\* ------------------------------------------- the work-day index on its own
\* main() up to the event loop: any holiday map, any range of dates
InitIndex ==
    /\ holidays \in HolidayMaps
    /\ first \in 1..MaxFirst
    /\ endDate \in first..MaxDate
    /\ workdays = EmptyMap
    /\ i = 0
    /\ ev = NoEvent
    /\ startDate = Nil
    /\ lastDate = Nil
    /\ lastVacationDate = Nil
    /\ fte = 0
    /\ accrued = 0
    /\ spent = 0
    /\ out = <<>>
    /\ projection = NoProjection
    /\ hist = [firstStart |-> Nil, fteChanged |-> FALSE]
    /\ pc = "index"
    /\ NotesIdle
    /\ ListingIdle
    /\ TwinsIdle

\* build map date->workdays since first
BuildIndex ==
    /\ pc = "index"
    /\ workdays' = BuildWorkdays(holidays, first, endDate, 0, EmptyMap)
    /\ pc' = "loop"
    /\ UNCHANGED <<aux, holidays, first, endDate, i, ev, startDate, lastDate,
                   lastVacationDate, fte, accrued, spent, out, projection, hist>>

NextIndex == BuildIndex

SpecIndex == InitIndex /\ [][NextIndex]_vars

\* ------------------------------------------------ updateEvent's write side
\* a text is a sequence of characters
NL == <<"\n">>

\* "vacation from "
Prefix == <<"v", "a", "c", "a", "t", "i", "o", "n", " ", "f", "r", "o", "m", " ">>

\* what a description is made of: line breaks, the prefix of a balance line,
\* the prefix without its last blank, and other text
Pieces == {NL, Prefix, SubSeq(Prefix, 1, Len(Prefix) - 1), <<"1">>}

RECURSIVE Concat(_)
Concat(ps) == IF ps = <<>> THEN <<>> ELSE Head(ps) \o Concat(Tail(ps))

\* the descriptions an event may have
Descriptions ==
    { Concat(ps) : ps \in UNION { [1..n -> Pieces] : n \in 0..MaxPieces } }

\* fmt.Sprintf("vacation from %s to %s: ..."): the prefix, then dates and
\* numbers, no line break
Balancelines ==
    { Prefix \o b : b \in UNION { [1..n -> {"1", "2"}] : n \in 0..MaxDigits } }

\* strings.Split(s, "\n"): one more piece than s has line breaks
RECURSIVE Split(_, _, _)
Split(s, cur, acc) ==
    IF s = <<>> THEN Append(acc, cur)
    ELSE IF <<Head(s)>> = NL THEN Split(Tail(s), <<>>, Append(acc, cur))
    ELSE Split(Tail(s), Append(cur, Head(s)), acc)

\* strings.Join(lines, "\n")
RECURSIVE Join(_)
Join(lines) ==
    IF lines = <<>> THEN <<>>
    ELSE IF Len(lines) = 1 THEN lines[1]
    ELSE lines[1] \o NL \o Join(Tail(lines))

\* strings.HasPrefix(s, p)
HasPrefix(s, p) == Len(s) >= Len(p) /\ SubSeq(s, 1, Len(p)) = p

\* mutant of MergeIntoNotes: the line is appended, a stale line is kept
MergeIntoNotes_Append(t, l) == Join(Append(Split(t, <<>>, <<>>), l))

\* newDescr: the description without its last line if that is a balance
\* line, and then the new balance line
MergeIntoNotes(t, l) ==
    LET lines == Split(t, <<>>, <<>>)
        kept == IF Len(lines) > 0 /\ HasPrefix(lines[Len(lines)], Prefix)
                THEN SubSeq(lines, 1, Len(lines) - 1)
                ELSE lines
    IN  Join(Append(kept, l))

InitNotes ==
    /\ holidays = EmptyMap
    /\ first = 1
    /\ endDate = 1
    /\ workdays = EmptyMap
    /\ i = 0
    /\ ev = NoEvent
    /\ startDate = Nil
    /\ lastDate = Nil
    /\ lastVacationDate = Nil
    /\ fte = 0
    /\ accrued = 0
    /\ spent = 0
    /\ out = <<>>
    /\ projection = NoProjection
    /\ hist = [firstStart |-> Nil, fteChanged |-> FALSE]
    /\ pc = "notes"
    /\ ListingIdle
    /\ TwinsIdle
    /\ description \in Descriptions
    /\ balanceline \in Balancelines
    /\ patch = <<>>
    /\ runs = 0

ledger == <<holidays, first, endDate, workdays, i, ev, startDate, lastDate,
            lastVacationDate, fte, accrued, spent, out, projection, hist, pc>>

\* updateEvent without -n, the description differs: Patch succeeds
PatchUpdated ==
    /\ runs < MaxRuns
    /\ MergeIntoNotes(description, balanceline) # description
    /\ description' = MergeIntoNotes(description, balanceline)
    /\ patch' = Append(patch, "updated")
    /\ runs' = runs + 1
    /\ UNCHANGED <<ledger, listing, twins, balanceline>>

\* updateEvent without -n, the description differs: Patch fails
PatchError ==
    /\ runs < MaxRuns
    /\ MergeIntoNotes(description, balanceline) # description
    /\ patch' = Append(patch, "error")
    /\ runs' = runs + 1
    /\ UNCHANGED <<ledger, listing, twins, description, balanceline>>

\* updateEvent without -n, newDescr == ev.Description: no Patch
PatchNotNeeded ==
    /\ runs < MaxRuns
    /\ MergeIntoNotes(description, balanceline) = description
    /\ patch' = Append(patch, "same")
    /\ runs' = runs + 1
    /\ UNCHANGED <<ledger, listing, twins, description, balanceline>>

NextNotes ==
    \/ PatchUpdated
    \/ PatchError
    \/ PatchNotNeeded

SpecNotes == InitNotes /\ [][NextNotes]_vars

\* ------------------------------------------------------- listAllDayEvents
\* an item of the calendar: Id is its place in the listing, allDay tells
\* that Start.DateTime is empty
Items == [Id : 1..MaxListed, Start : Dates, allDay : BOOLEAN]

\* the listings: every item carries its place as Id
Listings ==
    { l \in UNION { [1..n -> Items] : n \in 1..MaxListed } :
        \A k \in DOMAIN l : l[k].Id = k }

\* r = append(r, i) for the items that are all-day events
RECURSIVE AllDayEvents(_)
AllDayEvents(l) ==
    IF l = <<>> THEN <<>>
    ELSE IF Head(l).allDay THEN <<Head(l)>> \o AllDayEvents(Tail(l))
    ELSE AllDayEvents(Tail(l))

\* byStartDate.Less
Less(a, b) == a.Start < b.Start

\* sort.Sort(byStartDate(r)): r reordered so that no element is Less than
\* the one before it; the sort is not stable, elements that are not Less
\* than each other come in any order
SortedBy(r) ==
    { q \in { [k \in DOMAIN r |-> r[f[k]]] : f \in Permutations(DOMAIN r) } :
        \A k \in 1..(Len(q) - 1) : ~Less(q[k + 1], q[k]) }

InitList ==
    /\ holidays = EmptyMap
    /\ first = 1
    /\ endDate = 1
    /\ workdays = EmptyMap
    /\ i = 0
    /\ ev = NoEvent
    /\ startDate = Nil
    /\ lastDate = Nil
    /\ lastVacationDate = Nil
    /\ fte = 0
    /\ accrued = 0
    /\ spent = 0
    /\ out = <<>>
    /\ projection = NoProjection
    /\ hist = [firstStart |-> Nil, fteChanged |-> FALSE]
    /\ pc = "list"
    /\ NotesIdle
    /\ TwinsIdle
    /\ listed \in Listings
    /\ events = <<>>

\* listAllDayEvents returns the sorted r
ListAllDayEvents ==
    /\ pc = "list"
    /\ events' \in SortedBy(AllDayEvents(listed))
    /\ pc' = "listed"
    /\ UNCHANGED <<holidays, first, endDate, workdays, i, ev, startDate, lastDate,
                   lastVacationDate, fte, accrued, spent, out, projection, hist,
                   notes, twins, listed>>

NextList == ListAllDayEvents

SpecList == InitList /\ [][NextList]_vars

\* ------------------------------------------------- two runs side by side
\* what srv.Events.Patch can come to: the event is updated, the call fails,
\* or newDescr == ev.Description and there is no call
PatchResults == {"updated", "error", "same"}

\* mutant of UpdateEvent: with -n nothing is printed either
UpdateEvent_Silent(n, res, line) ==
    [printed |-> IF n THEN <<>> ELSE <<line>>, log |-> IF n THEN "" ELSE res]

\* updateEvent: Println(balanceline), then return if *noUpdate, else the
\* description is patched and the outcome logged
UpdateEvent(n, res, line) ==
    [printed |-> <<line>>, log |-> IF n THEN "" ELSE res]

\* the ledger before the loop
Ledger0 ==
    [startDate |-> Nil, lastDate |-> Nil, lastVacationDate |-> Nil, fte |-> 0,
     accrued |-> 0, spent |-> 0, out |-> <<>>, log |-> "", pc |-> "loop"]

\* one iteration of the loop on the ledger L for the event e, in a run with
\* flag n whose Patch comes to res
LoopBody(L, e, w, n, res) ==
    LET acc == AccruedAfter(L.accrued, L.fte, L.lastDate, e.End)
        last == LastDateAfter(L.lastDate, e.End)
        M == [L EXCEPT !.accrued = acc, !.lastDate = last, !.out = <<>>, !.log = ""]
    IN  IF e.startDay
        THEN LET u == UpdateEvent(n, res, Line(e.Start, e.End, 0, 0, acc, L.spent))
             IN  [M EXCEPT !.lastDate = FirstDayOfEmployment(L.startDate, last, e),
                           !.startDate = e.Start,
                           !.fte = NewFte(L.fte, PercentMatch(e)),
                           !.out = u.printed,
                           !.log = u.log]
        ELSE IF e.vacation
        THEN IF L.startDate = Nil
             THEN [M EXCEPT !.pc = "fatal"]
             ELSE IF AlreadyAccounted(last, e)
             THEN M
             ELSE LET start == PatchedStart(L.lastVacationDate, e)
                      daysOff == DaysOff(w, start, e.End)
                      effDaysOff == EffDaysOff(DaysBetween(start, e.End), daysOff,
                                               L.fte, e.halfDay)
                      u == UpdateEvent(n, res, Line(start, e.End, daysOff, effDaysOff,
                                                    acc, L.spent + effDaysOff))
                  IN  [M EXCEPT !.lastVacationDate = e.End,
                                !.spent = L.spent + effDaysOff,
                                !.out = u.printed,
                                !.log = u.log]
        ELSE M

\* the flags of the two runs: the first run updates the calendar, the
\* second may be a dry run
Flags == { f \in [1..2 -> BOOLEAN] : ~f[1] }

\* what the Patch of either run can come to: a dry run makes no call
PatchResultsOf(f) == [k \in 1..2 |-> IF f[k] THEN {"none"} ELSE PatchResults]

InitTwins ==
    /\ holidays = EmptyMap
    /\ first = 1
    /\ endDate = MaxDate
    /\ workdays = BuildWorkdays(holidays, first, endDate, 0, EmptyMap)
    /\ i = 0
    /\ ev = NoEvent
    /\ startDate = Nil
    /\ lastDate = Nil
    /\ lastVacationDate = Nil
    /\ fte = 0
    /\ accrued = 0
    /\ spent = 0
    /\ out = <<>>
    /\ projection = NoProjection
    /\ hist = [firstStart |-> Nil, fteChanged |-> FALSE]
    /\ pc = "loop"
    /\ NotesIdle
    /\ ListingIdle
    /\ noUpdate \in Flags
    /\ twin = [k \in 1..2 |-> Ledger0]

\* both runs take the next event of the list
TwinStep ==
    \E e \in Events :
        /\ i < MaxTwinEvents
        /\ Takes(e)
        /\ \A k \in 1..2 : twin[k].pc = "loop"
        /\ \E res \in { r \in [1..2 -> PatchResults \cup {"none"}] :
                          \A k \in 1..2 : r[k] \in PatchResultsOf(noUpdate)[k] } :
              twin' = [k \in 1..2 |-> LoopBody(twin[k], e, workdays, noUpdate[k], res[k])]
        /\ pc' = IF \E k \in 1..2 : twin'[k].pc = "fatal" THEN "fatal" ELSE "loop"
        /\ UNCHANGED <<holidays, first, endDate, workdays, startDate, lastDate,
                       lastVacationDate, fte, accrued, spent, out, projection, hist,
                       notes, listing, noUpdate>>

NextTwins == TwinStep

SpecTwins == InitTwins /\ [][NextTwins]_vars

\* =================================================================== claims
\* the step takes the next event of the list
TakesEvent == pc = "loop" /\ i' = i + 1

\* ev' is classified as a vacation booking (reStartDay is tried first)
IsVacation(e) == e.vacation /\ ~e.startDay

\* a working day: neither Saturday, Sunday nor a public holiday
WorkingDay(d) == Weekday(d) \notin {Saturday, Sunday} /\ d \notin DOMAIN holidays

\* the working days of the span [a, b)
WorkingDaysIn(a, b) == Cardinality({d \in a..(b - 1) : WorkingDay(d)})

\* C1 (overlap skip): a vacation booking that ends before lastVacationDate is
\* skipped: spent and lastVacationDate keep their values and no line is
\* printed for it.
C1_OverlapSkip ==
    [][ (TakesEvent /\ IsVacation(ev') /\ startDate # Nil
         /\ lastVacationDate # Nil /\ lastVacationDate > ev'.End)
        => (spent' = spent /\ lastVacationDate' = lastVacationDate /\ out' = <<>>) ]_vars

\* C2 (half-day rule): a vacation booking of one calendar day with the half
\* day hint is deducted as 0.5 days, for every fte in (0, 1].
C2_HalfDayRule ==
    [][ (TakesEvent /\ IsVacation(ev') /\ startDate # Nil /\ ev'.halfDay
         /\ DaysBetween(ev'.Start, ev'.End) = 1 /\ fte \in 1..100)
        => (out' # <<>> /\ out'[1].effDaysOff = 50 /\ spent' = spent + 50) ]_vars

\* C3 (overlap correctness): two vacation bookings [a,b) and [c,d) processed
\* one after the other with a <= c < b <= d, the first one untrimmed: the
\* daysOff of their two lines sum to the working days of [a,d).
C3_OverlapCorrectness ==
    [][ (TakesEvent /\ IsVacation(ev) /\ out # <<>> /\ out[1].from = ev.Start
         /\ IsVacation(ev')
         /\ ev.Start <= ev'.Start /\ ev'.Start < ev.End /\ ev.End <= ev'.End)
        => (out' # <<>>
            /\ out[1].daysOff + out'[1].daysOff = WorkingDaysIn(ev.Start, ev'.End)) ]_vars

\* C3 witness: a booking was trimmed to a tail that holds a working day
C3_Witness ==
    /\ IsVacation(ev) /\ out # <<>>
    /\ out[1].from > ev.Start /\ out[1].from < ev.End
    /\ out[1].daysOff >= 1

\* C4 (accrual additivity): while no start marker has changed the fte, accrued
\* is fte * (25/365) * the days from the first start date to lastDate,
\* however many events subdivide the interval.
C4_AccrualAdditivity ==
    (hist.firstStart # Nil /\ ~hist.fteChanged)
        => accrued = fte * HolidaysPerYear * DaysBetween(hist.firstStart, lastDate)

\* C4 witness: a part-time ledger after three events, the last of which ends
\* before its predecessor ended
C4_Witness ==
    /\ i = 3 /\ pc = "loop" /\ hist.firstStart # Nil /\ ~hist.fteChanged
    /\ fte = 60 /\ ~ev.startDay
    /\ accrued > 0 /\ lastDate < MaxDate /\ lastDate > hist.firstStart

\* C5 (spent is non-negative) in every reachable state of the ledger.
C5_SpentNonNegative == spent >= 0

\* C6 (configuration error): a vacation booking taken before any start marker
\* aborts the run with accrued, spent, fte, lastDate and lastVacationDate as
\* they were, and prints no line.
C6_ConfigurationError ==
    [][ (TakesEvent /\ IsVacation(ev') /\ hist.firstStart = Nil)
        => (/\ pc' = "fatal"
            /\ accrued' = accrued /\ spent' = spent /\ fte' = fte
            /\ lastDate' = lastDate /\ lastVacationDate' = lastVacationDate
            /\ out' = <<>>) ]_vars

\* C6 witness: the run aborted on a vacation booking that followed another
\* event
C6_Witness == pc = "fatal" /\ i >= 2 /\ IsVacation(ev) /\ ev.End > ev.Start

\* C7 (part-time rule of the package documentation): with fte < 100% an
\* untrimmed booking without half-day hint whose calendar span is at most
\* fte * 5 days is deducted as its working days, a longer one as fte times
\* its working days.
C7_PartTimeRule ==
    [][ (TakesEvent /\ IsVacation(ev') /\ startDate # Nil /\ ~ev'.halfDay
         /\ fte \in 1..99 /\ out' # <<>> /\ out'[1].from = ev'.Start)
        => out'[1].effDaysOff =
             IF DaysBetween(ev'.Start, ev'.End) * 100 <= 5 * fte
             THEN 100 * out'[1].daysOff
             ELSE fte * out'[1].daysOff ]_vars

C9_FteReset ==
    [][ IF TakesEvent /\ ev'.startDay
        THEN fte' = (IF ev'.sumPct # NoMatch THEN ev'.sumPct
                     ELSE IF ev'.descPct # NoMatch THEN ev'.descPct
                     ELSE 100)
        ELSE fte' = fte ]_vars

\* C9 witness: the second start marker carries no percentage and resets a
\* lower fte to 100%
C9_Witness ==
    /\ i = 2 /\ ev.startDay /\ ev.sumPct = NoMatch /\ ev.descPct = NoMatch
    /\ hist.fteChanged /\ fte = 100

\* C10 (accrued is non-negative) in every reachable state of the ledger.
C10_AccruedNonNegative == accrued >= 0

\* the lines of a text
Lines(t) == Split(t, <<>>, <<>>)

LastLine(t) == Lines(t)[Len(Lines(t))]

\* C11 (merge idempotence): for a description t and a rendered line l,
\* merging l into the merged text again gives the merged text; the merged
\* text is the lines of t (without a stale last balance line) and then l as
\* its one last line; a call on a description that already ends with the
\* rendered line writes nothing and leaves the description as it is, and a
\* successful write stores the merged text.
C11_MergeIdempotence ==
    [][ (runs' = runs + 1) =>
          LET t == description
              l == balanceline
              m == MergeIntoNotes(t, l)
              stale == HasPrefix(LastLine(t), Prefix)
          IN  /\ MergeIntoNotes(m, l) = m
              /\ LastLine(m) = l
              /\ Len(Lines(m)) = Len(Lines(t)) + (IF stale THEN 0 ELSE 1)
              /\ SubSeq(Lines(m), 1, Len(Lines(m)) - 1)
                    = SubSeq(Lines(t), 1, Len(Lines(m)) - 1)
              /\ (patch'[runs'] = "updated") => description' = m
              /\ (patch'[runs'] # "updated") => description' = t
              /\ (LastLine(t) = l) => (description' = t /\ patch'[runs'] = "same")
      ]_vars

\* the second call on an event finds the line of the first call: a stale
\* line was replaced, nothing is written again
C11_Witness ==
    /\ patch = <<"updated", "same">>
    /\ Len(Lines(description)) = 2
    /\ Lines(description)[1] = <<"1">>
    /\ LastLine(description) = balanceline
    /\ balanceline = Prefix \o <<"2">>

\* C18 (processing order): the events the loop ranges over are in ascending
\* start date, and events with the same start date are in the order in
\* which they were listed.
C18_ProcessingOrder ==
    (pc = "listed")
        => \A j, k \in DOMAIN events :
              (j < k) =>
                 /\ events[j].Start <= events[k].Start
                 /\ (events[j].Start = events[k].Start) => events[j].Id < events[k].Id

\* C12 (independence from the write side): two runs over the same events
\* and holidays, whatever their flags -n and whatever becomes of their
\* updates, print the same lines and have the same ledger after every event.
C12_WriteSideIndependence ==
    (twin # <<>>)
        => [twin[1] EXCEPT !.log = ""] = [twin[2] EXCEPT !.log = ""]

\* a booking was printed by both runs: the update of the first run failed,
\* the second run updates nothing
C12_Witness ==
    /\ twin # <<>>
    /\ noUpdate = <<FALSE, TRUE>>
    /\ twin[1].log = "error" /\ twin[2].log = ""
    /\ IsVacation(ev)
    /\ twin[2].out # <<>> /\ twin[2].out[1].daysOff > 0
    /\ twin[1].spent > 0

\* C14 (work-day index): the index is non-decreasing, and for two dates
\* a <= b of the range index[b] - index[a] is the number of days of [a, b)
\* that are neither Saturday, Sunday nor a key of the holiday map.
C14_WorkdayIndex ==
    (pc = "loop")
        => \A a, b \in DOMAIN workdays :
              (a <= b) =>
                 /\ workdays[a] <= workdays[b]
                 /\ workdays[b] - workdays[a]
                      = Cardinality({d \in a..(b - 1) :
                            /\ Weekday(d) \notin {Saturday, Sunday}
                            /\ d \notin DOMAIN holidays})

\* C13 (year-end projection): while no start marker has changed the fte, the
\* projected accrual is fte * (25/365) * the days from the first start date to
\* January 1 of the next year: every calendar day counts once.
C13_YearEndProjection ==
    (pc = "done" /\ projection.eoy # Nil /\ hist.firstStart # Nil /\ ~hist.fteChanged)
        => projection.accrued
             = fte * HolidaysPerYear * DaysBetween(hist.firstStart, projection.eoy)

\* C15 (index lookups): the two dates a vacation booking looks up in the
\* work-day index, its end and its (possibly patched) start, are dates the
\* index was built for.
C15_LookupsInRange ==
    (IsVacation(ev) /\ out # <<>>)
        => (out[1].from \in DOMAIN workdays /\ out[1].to \in DOMAIN workdays)

\* C15 witness: a booking patched to start on the end of its predecessor ends
\* on the last day of the index, in a run whose first event is not the
\* booking
C15_Witness ==
    /\ IsVacation(ev) /\ out # <<>> /\ pc = "loop"
    /\ out[1].from > ev.Start /\ out[1].to = endDate /\ endDate < MaxDate
    /\ out[1].from < out[1].to

\* C16 (ignored marker): an event that is neither a start marker nor a vacation
\* booking leaves startDate, fte, spent and lastVacationDate alone and prints
\* no line; once lastDate is set it advances accrued and lastDate to its end.
C16_IgnoredMarker ==
    [][ (TakesEvent /\ ~ev'.startDay /\ ~ev'.vacation)
        => (/\ startDate' = startDate /\ fte' = fte /\ spent' = spent
            /\ lastVacationDate' = lastVacationDate
            /\ out' = <<>> /\ pc' = "loop"
            /\ IF lastDate # Nil
               THEN /\ accrued' = accrued + fte * 25 * (ev'.End - lastDate)
                    /\ lastDate' = ev'.End
               ELSE accrued' = accrued /\ lastDate' = lastDate) ]_vars

\* C16 witness: an ignored event after the first start moved lastDate and
\* accrued
C16_Witness ==
    /\ ~ev.startDay /\ ~ev.vacation /\ i >= 2 /\ pc = "loop"
    /\ lastDate = ev.End /\ accrued > 0 /\ startDate # Nil

\* C17 (accrual begins at the first start): before the first start marker
\* accrued is 0 and lastDate unset; the first start marker sets lastDate to its
\* start and prints a line with accrued = 0.
C17_AccrualBeginsAtStart ==
    [][ /\ (hist'.firstStart = Nil) => (accrued' = 0 /\ lastDate' = Nil)
        /\ (TakesEvent /\ ev'.startDay /\ hist.firstStart = Nil)
             => (/\ lastDate' = ev'.Start /\ accrued' = 0
                 /\ out' # <<>> /\ out'[1].accrued = 0
                 /\ hist'.firstStart = ev'.Start) ]_vars

\* C17 witness: the first start marker, longer than a day, came second in the
\* list
C17_Witness ==
    /\ i = 2 /\ ev.startDay /\ ev.End > ev.Start
    /\ lastDate = ev.Start /\ accrued = 0 /\ hist.firstStart = ev.Start

====
